---- MODULE Spec2Model ----
(***************************************************************************)
(* Model of the chunking and retrieval-augmented answer pipeline:          *)
(*   - TextChunker.chunk_text              (app/VectorDatabase/VectorDB.py) *)
(*   - VectorDBService (the chunk store)   (app/VectorDatabase/VectorDB.py) *)
(*   - generate_answer_with_openai   (app/VectorDatabase/VectorDB_Route.py) *)
(*   - VoiceModeService.generate_answer_with_rag (app/VoiceMode/VoiceMode.py)*)
(* A text is a sequence of one-character strings; offsets are 0-based as   *)
(* in the source, so character i of the source is text[i + 1] here.        *)
(***************************************************************************)
EXTENDS Integers, Sequences, FiniteSets, TLC

(***************************************************************************)
(* Bounds of the model.                                                    *)
(***************************************************************************)
MaxLen == 5
MaxSize == 4
MaxChunks == MaxLen + 2

Chars == {"a", ".", " ", "\n"}
Texts == UNION {[1..n -> Chars] : n \in 0..MaxLen}
ChunkSizes == 1..MaxSize
\* the overlap may reach chunk_size: the route bounds the two parameters
\* separately (chunk_size in 100..5000, chunk_overlap in 0..500)
ChunkOverlaps == 0..MaxSize
\* texts without whitespace, one character longer
PlainTexts == UNION {[1..n -> {"a", "."}] : n \in 0..(MaxLen + 1)}

SetMax(S) == CHOOSE x \in S : \A y \in S : y <= x
SetMin(S) == CHOOSE x \in S : \A y \in S : x <= y

(***************************************************************************)
(* Python's str primitives used by chunk_text.                             *)
(***************************************************************************)
\* a slice bound as Python normalises it: negative counts from the end,
\* and the result is clamped to 0..n
Norm(i, n) ==
    IF i < 0 THEN (IF i + n < 0 THEN 0 ELSE i + n)
    ELSE (IF i > n THEN n ELSE i)

\* text[s:e]
Slice(t, s, e) ==
    LET a == Norm(s, Len(t))
        b == Norm(e, Len(t))
    IN  IF a >= b THEN <<>> ELSE [k \in 1..(b - a) |-> t[a + k]]

\* text.rfind(ch, s, e): the highest index in the slice holding ch, else -1
RFind(t, ch, s, e) ==
    LET a == Norm(s, Len(t))
        b == Norm(e, Len(t))
    IN  IF \E i \in a..(b - 1) : t[i + 1] = ch
        THEN CHOOSE i \in a..(b - 1) :
                 t[i + 1] = ch /\ \A j \in (i + 1)..(b - 1) : t[j + 1] # ch
        ELSE -1

IsSpace(c) == c \in {" ", "\n"}

\* str.strip()
Strip(s) ==
    LET keep == {i \in 1..Len(s) : ~IsSpace(s[i])}
    IN  IF keep = {} THEN <<>> ELSE SubSeq(s, SetMin(keep), SetMax(keep))

(***************************************************************************)
(* TextChunker.chunk_text, one loop iteration at a time.                   *)
(***************************************************************************)
\* a variant that prefers a newline to a period
WindowEndNewlineFirst(t, size, s) ==
    LET end == s + size
        last_period == RFind(t, ".", s, end)
        last_newline == RFind(t, "\n", s, end)
        last_space == RFind(t, " ", s, end)
    IN  IF end < Len(t)
        THEN IF last_newline > s + (size \div 2) THEN last_newline + 1
             ELSE IF last_period > s + (size \div 2) THEN last_period + 1
             ELSE IF last_space > s + (size \div 2) THEN last_space + 1
             ELSE end
        ELSE end

\* the end of the window that starts at s: start + chunk_size, pulled back
\* to just after a '.', '\n' or ' ' lying past the middle of the window
WindowEnd(t, size, s) ==
    LET end == s + size
        last_period == RFind(t, ".", s, end)
        last_newline == RFind(t, "\n", s, end)
        last_space == RFind(t, " ", s, end)
    IN  IF end < Len(t)
        THEN IF last_period > s + (size \div 2) THEN last_period + 1
             ELSE IF last_newline > s + (size \div 2) THEN last_newline + 1
             ELSE IF last_space > s + (size \div 2) THEN last_space + 1
             ELSE end
        ELSE end

\* a variant that keeps the whitespace around the slice
ChunkContentUntrimmed(t, s, end) == Slice(t, s, end)

\* chunk_content = text[start:end].strip(), read off the positions of text:
\* what lies between the first and the last non-whitespace character of
\* the slice
ChunkContent(t, s, end) ==
    LET a == Norm(s, Len(t))
        b == Norm(end, Len(t))
    IN  IF \A i \in (a + 1)..b : IsSpace(t[i])
        THEN <<>>
        ELSE SubSeq(t,
                 CHOOSE i \in (a + 1)..b :
                     ~IsSpace(t[i]) /\ \A j \in (a + 1)..(i - 1) : IsSpace(t[j]),
                 CHOOSE i \in (a + 1)..b :
                     ~IsSpace(t[i]) /\ \A j \in (i + 1)..b : IsSpace(t[j]))

\* a variant that emits every window, blank or not
EmitAlways(content) == TRUE

\* `if chunk_content:` -- a window is emitted only when something is left
Emits(content) == content # <<>>

\* a variant that counts every window, emitted or not
IndexEveryWindow(content, idx) == idx + 1

\* chunk_index after the window: incremented only when a chunk was appended
NextIndex(content, idx) == IF Emits(content) THEN idx + 1 ELSE idx

\* a variant whose next window starts one character late
StartSkipsOne(t, end, overlap) == IF end < Len(t) THEN end - overlap + 1 ELSE end

\* start = end - chunk_overlap if end < len(text) else end
NextStart(t, end, overlap) == IF end < Len(t) THEN end - overlap ELSE end

\* the `break` after the move of start
Breaks(t, s2, end, content) ==
    s2 >= Len(t) \/ (end >= Len(t) /\ content # <<>>)

\* one pass through the body of `while start < len(text)`, from the loop
\* state st = [start, chunk_index, chunks]; `more` says the loop goes on
LoopBody(t, size, overlap, st) ==
    LET end == WindowEnd(t, size, st.start)
        content == ChunkContent(t, st.start, end)
        rec == [chunk_index |-> st.chunk_index, content |-> content,
                start_char |-> st.start, end_char |-> end]
        s2 == NextStart(t, end, overlap)
    IN  [start |-> s2,
         chunk_index |-> NextIndex(content, st.chunk_index),
         chunks |-> IF Emits(content) THEN Append(st.chunks, rec) ELSE st.chunks,
         more |-> ~Breaks(t, s2, end, content) /\ s2 < Len(t)]

LoopStart == [start |-> 0, chunk_index |-> 0, chunks |-> <<>>, more |-> TRUE]

\* A loop that never exits appends without end; the model keeps the first
\* MaxChunks chunks of such a run and remembers that it dropped the rest.
Capped(st) ==
    IF Len(st.chunks) > MaxChunks
    THEN [st EXCEPT !.chunks = SubSeq(st.chunks, 1, MaxChunks),
                    !.chunk_index = MaxChunks]
    ELSE st

\* chunk_text as a function of its arguments: the loop body repeated until
\* the loop exits; `returned` is FALSE for a call whose loop is still
\* running after MaxSteps iterations
MaxSteps == 2 * MaxChunks

RECURSIVE RunLoop(_, _, _, _, _)
RunLoop(t, size, overlap, st, fuel) ==
    IF ~st.more THEN [returned |-> TRUE, chunks |-> st.chunks]
    ELSE IF fuel = 0 THEN [returned |-> FALSE, chunks |-> <<>>]
    ELSE RunLoop(t, size, overlap, LoopBody(t, size, overlap, st), fuel - 1)

chunk_text(t, size, overlap) ==
    IF Len(t) = 0 THEN [returned |-> TRUE, chunks |-> <<>>]
    ELSE RunLoop(t, size, overlap, LoopStart, MaxSteps)

(***************************************************************************)
(* The chunk store: VectorDBService over a ChromaDB PersistentClient.      *)
(***************************************************************************)
None == "None"

CollectionNames == {"default", "notes"}
\* the route passes `file.filename or "unknown"`: never an empty name
Filenames == {"a.txt", "b.txt"}
\* documents handed to add_document, with the chunk parameters used
Documents == {<<>>, <<" ">>, <<"a">>, <<"a", " ", "a">>}
StoreParams == [chunk_size |-> 1, chunk_overlap |-> 0]
\* the `metadata` argument, a mapping merged over the chunk's own; None
\* counts as the empty mapping (`metadata or {}`)
NoMetadata == [k \in {} |-> ""]
ExtraMetadata == {NoMetadata, [filename |-> "b.txt"]}
\* uuid.uuid4().hex[:8], the random part of a chunk id
Salts == {"0f3a9c1e", "7b22d4e0"}
\* most chunks the index holds in the model, over all collections
MaxStored == 2
TopKs == {1, 2}
\* the index's distances: score = 1 - distance
Distances == {0, 2}
Queries == {"who"}
\* similarity_threshold, a float in [0.0, 1.0]: its two ends
Thresholds == {0, 1}

\* a variant that leaves chunk_index out of the id
IdWithoutIndex(filename, idx, salt) ==
    [filename |-> filename, chunk_index |-> 0, salt |-> salt]

\* hashlib.md5(f"{filename}_{chunk_index}_{uuid4().hex[:8]}").hexdigest():
\* one id per (filename, chunk_index, random part)
generate_document_id(filename, idx, salt) ==
    [filename |-> filename, chunk_index |-> idx, salt |-> salt]

\* {"filename": ..., "chunk_index": ..., "start_char": ..., "end_char": ...,
\*  **(metadata or {})}: the caller's keys win
chunk_metadata(filename, chunk, metadata) ==
    LET own == [filename |-> filename, chunk_index |-> chunk.chunk_index,
                start_char |-> chunk.start_char, end_char |-> chunk.end_char]
    IN  [k \in DOMAIN own \cup DOMAIN metadata |->
            IF k \in DOMAIN metadata THEN metadata[k] ELSE own[k]]

\* the records add_document builds from the chunks: salts[k] is the random
\* part drawn for chunk k
NewRecords(chunks, filename, metadata, salts) ==
    {[id |-> generate_document_id(filename, chunks[k].chunk_index, salts[k]),
      document |-> chunks[k].content,
      metadata |-> chunk_metadata(filename, chunks[k], metadata)] :
        k \in 1..Len(chunks)}

\* collection.add(ids, documents, metadatas): a record whose id the
\* collection already holds is ignored
CollectionAdd(records, new) ==
    records \cup {r \in new : \A o \in records : o.id # r.id}

\* collection.get(where={"filename": filename})['ids']
WhereFilename(records, filename) ==
    {r.id : r \in {x \in records : x.metadata.filename = filename}}

\* collection.delete(ids=...)
CollectionDelete(records, ids) == {r \in records : r.id \notin ids}

\* a variant that lets the exception of get_collection through
QueryMissingRaises == [raised |-> TRUE, value |-> <<>>]

\* query_documents when get_collection raises: `except Exception: return []`
QueryMissing == [raised |-> FALSE, value |-> <<>>]

\* the sequences collection.query may return for n_results = top_k: as many
\* records as asked for, or all of them when fewer are stored, nearest first
QueryHits(records, top_k) ==
    LET n == IF Cardinality(records) < top_k THEN Cardinality(records) ELSE top_k
    IN  {h \in [1..n -> records \X Distances] :
            /\ \A i, j \in 1..n : i # j => h[i][1] # h[j][1]
            /\ \A i, j \in 1..n : i < j => h[i][2] <= h[j][2]}

\* the result list query_documents builds from the index's answer
QueryResults(hits) ==
    [i \in 1..Len(hits) |->
        [chunk_id |-> hits[i][1].id, content |-> hits[i][1].document,
         score |-> 1 - hits[i][2], metadata |-> hits[i][1].metadata]]

\* _generate_answer(question, context): an answer drawn from the context
generate_answer(question, context) == <<"answer to", question, context>>

\* a variant that grounds the answer in the chunks scoring above the
\* threshold only
AnswerFromRelevant(question, results, top_k, similarity_threshold) ==
    LET IsRelevant(r) == r.score > similarity_threshold
        kept == SelectSeq(results, IsRelevant)
    IN  IF kept = <<>>
        THEN [has_answer |-> FALSE,
              answer |-> "No related information available in the stored documents.",
              sources |-> <<>>]
        ELSE [has_answer |-> TRUE,
              answer |-> generate_answer(question,
                            [i \in 1..Len(kept) |-> kept[i].content]),
              sources |-> [i \in 1..Len(kept) |->
                            [content |-> kept[i].content,
                             filename |-> IF "filename" \in DOMAIN kept[i].metadata
                                          THEN kept[i].metadata.filename
                                          ELSE "unknown",
                             score |-> kept[i].score]]]

\* answer_question's result from the query results; similarity_threshold
\* is a parameter the body never reads
AnswerFrom(question, results, top_k, similarity_threshold) ==
    IF results = <<>>
    THEN [has_answer |-> FALSE,
          answer |-> "No related information available in the stored documents.",
          sources |-> <<>>]
    ELSE LET relevant == SubSeq(results, 1,
                            IF Len(results) < top_k THEN Len(results) ELSE top_k)
         IN  [has_answer |-> TRUE,
              answer |-> generate_answer(question,
                            [i \in 1..Len(relevant) |-> relevant[i].content]),
              sources |-> [i \in 1..Len(relevant) |->
                            [content |-> relevant[i].content,
                             filename |-> IF "filename" \in DOMAIN relevant[i].metadata
                                          THEN relevant[i].metadata.filename
                                          ELSE "unknown",
                             score |-> relevant[i].score]]]

(***************************************************************************)
(* The answer resolver, in its two implementations:                        *)
(* generate_answer_with_openai (vector-database route) and                 *)
(* VoiceModeService.generate_answer_with_rag (voice mode).  A text is a    *)
(* sequence of strings; a Python value that is None or a text is a record  *)
(* [kind, content].                                                        *)
(***************************************************************************)
Text(tokens) == [kind |-> "text", content |-> tokens]
PyNone == [kind |-> "None", content |-> <<>>]

\* the values OPENAI_API_KEY takes: unset, the placeholder the code
\* tests for, a key
PlaceholderKey == "your_openai_api_key_here"
ApiKeys == {None, PlaceholderKey, "sk-key"}

\* `api_key and api_key != "your_openai_api_key_here"`
Configured(key) == key # None /\ key # PlaceholderKey

Implementations == {"route", "voice"}

ResolverQueries == {"who", "where"}

\* retrieved-chunk lists handed to the resolver
RetrievedChunks ==
    {<<>>,
     <<[score |-> 1]>>,
     <<[content |-> <<" ">>]>>,
     <<[content |-> <<" ">>], [content |-> <<>>]>>,
     <<[content |-> <<"a">>]>>,
     <<[content |-> <<" ">>], [content |-> <<"a">>]>>}

\* "\n\n".join(parts)
RECURSIVE Join(_)
Join(parts) ==
    IF Len(parts) = 0 THEN <<>>
    ELSE IF Len(parts) = 1 THEN parts[1]
    ELSE parts[1] \o <<"\n", "\n">> \o Join(Tail(parts))

\* chunk.get("content", "")
ContentOf(chunk) == IF "content" \in DOMAIN chunk THEN chunk.content ELSE <<>>

Context(chunks) == Join([i \in 1..Len(chunks) |-> ContentOf(chunks[i])])

\* `not context.strip() or len(chunks) == 0`
NoContent(chunks) == Strip(Context(chunks)) = <<>> \/ Len(chunks) = 0

Sentinel == "NOT_FOUND_IN_DOCS"

\* what one collaborator invocation does: return a completion whose
\* message content is a text or None, or raise
Replies ==
    {[kind |-> "text", content |-> c] :
        c \in {<<"Paris">>, <<Sentinel>>, <<"Sorry,", Sentinel>>, <<>>}}
    \cup {PyNone, [kind |-> "raise", content |-> <<"timeout">>]}
Pending == [kind |-> "pending", content |-> <<>>]

\* a variant that accepts the sentinel only as the whole answer
EqualsSentinel(answer) == answer.content = <<Sentinel>>

\* `"NOT_FOUND_IN_DOCS" in answer`
ContainsSentinel(answer) ==
    \E i \in 1..Len(answer.content) : answer.content[i] = Sentinel

\* the chat.completions.create calls: general-knowledge instructions and
\* the bare query, or grounding instructions and context plus question
BareInvocation(query) ==
    [system |-> "general", has_context |-> FALSE, context |-> <<>>,
     question |-> query, reply |-> Pending]
GroundedInvocation(query, context) ==
    [system |-> "grounded", has_context |-> TRUE, context |-> context,
     question |-> query, reply |-> Pending]

\* a variant label for answers that came from general knowledge
SourceMislabelled == "document"

\* a variant label for answers drawn from the documents
SourceUngrounded == "gpt"

\* the "source" values of the returned dicts
SourceGpt == "gpt"
SourceDocument == "document"
SourceNone == "none"
SourceError == "error"

NoRelevantInformation == Text(<<"No relevant information found in the documents.">>)
ErrorAnswer(e) == Text(<<"Error generating answer: ">> \o e)

\* the dict an implementation returns: the voice one has no found_in_docs
Result(impl, answer, source, found) ==
    IF impl = "route"
    THEN [answer |-> answer, source |-> source, found_in_docs |-> found]
    ELSE [answer |-> answer, source |-> source]

\* what each implementation returns when the credential is not configured
Unconfigured(impl) ==
    IF impl = "route"
    THEN [answer |-> PyNone, source |-> None, found_in_docs |-> FALSE]
    ELSE [answer |-> Text(<<"OpenAI API key not configured. Cannot generate answer.">>),
          source |-> SourceError]

(***************************************************************************)
(* State.                                                                  *)
(*   text, chunk_size, chunk_overlap  the arguments of a chunk_text call   *)
(*   loop        its locals: start, chunk_index, chunks                    *)
(*   truncated   the model dropped chunks of a run that never exits        *)
(*   tick        parity of the number of loop iterations taken, which      *)
(*               tells an iteration that changes no local from no step     *)
(*   pc          where the call is: "call", "loop", "done"; "idle" when    *)
(*               no chunk_text call is being followed                      *)
(***************************************************************************)
VARIABLES text, chunk_size, chunk_overlap, loop, truncated, tick, pc

chunkVars == <<text, chunk_size, chunk_overlap, loop, truncated, tick, pc>>

(***************************************************************************)
(*   _initialized, _client   VectorDBService's class attributes            *)
(*   index       the persistent index: the records of each collection      *)
(*               that exists                                               *)
(*   backendUp   whether the index can be reached (opened, called)         *)
(*   ret         the service call that led to this state: its name, its    *)
(*               arguments, whether it raised and what it returned         *)
(***************************************************************************)
VARIABLES _initialized, _client, index, backendUp, ret

\* the number of times chromadb.PersistentClient(...) has returned a client
VARIABLE clients_built

storeVars == <<_initialized, _client, index, backendUp, ret, clients_built>>

(***************************************************************************)
(*   OPENAI_API_KEY  the process's environment variable                    *)
(*   openai_client   VectorDB_Route's module attribute, set at import      *)
(*   call            the arguments of the resolver call being followed     *)
(*   invocations     the collaborator invocations that call has made, in   *)
(*                   order, each with the reply it got                     *)
(*   result          the dict the call returned                            *)
(*   rpc             where the call is: "idle", waiting in its "direct",   *)
(*                   "grounded" or "fallback" invocation, or "returned"    *)
(*   previous        the resolver call that returned before the one being  *)
(*                   followed: its arguments, invocations and result       *)
(***************************************************************************)
VARIABLES OPENAI_API_KEY, openai_client, call, invocations, result, rpc, previous

resolverVars ==
    <<OPENAI_API_KEY, openai_client, call, invocations, result, rpc, previous>>

(***************************************************************************)
(*   requests        the requests the service runtime is handling: each    *)
(*                   has the route it came in by and how far its handler   *)
(*                   has run (0: not started; k: inside step k of the      *)
(*                   route's handler; past the last step: answered)        *)
(*   thread          the request the event loop's thread is running, or    *)
(*                   NoRequest when the loop is free to pick one           *)
(***************************************************************************)
VARIABLES requests, thread

runtimeVars == <<requests, thread>>

vars == <<chunkVars, storeVars, resolverVars, runtimeVars>>

NoRequest == "NoRequest"
RequestIds == {"r1", "r2", "r3"}

RuntimeIdle ==
    /\ requests = [r \in RequestIds |-> [route |-> "none", at |-> 0]]
    /\ thread = NoRequest

NoCall == [impl |-> "none", query |-> "", chunks |-> <<>>, fallback_to_gpt |-> FALSE]
NoResult == [source |-> "unset"]
NoPrevious == [call |-> NoCall, invocations |-> <<>>, result |-> NoResult]

ResolverIdle ==
    /\ OPENAI_API_KEY = None
    /\ openai_client = None
    /\ call = NoCall
    /\ invocations = <<>>
    /\ result = NoResult
    /\ rpc = "idle"
    /\ previous = NoPrevious

StoreIdle ==
    /\ _initialized = FALSE
    /\ _client = None
    /\ index = <<>>
    /\ backendUp = TRUE
    /\ ret = [op |-> "none"]
    /\ clients_built = 0

ChunkIdle ==
    /\ text = <<>>
    /\ chunk_size = 1
    /\ chunk_overlap = 0
    /\ loop = LoopStart
    /\ truncated = FALSE
    /\ tick = 0
    /\ pc = "idle"

ChunkInit ==
    /\ StoreIdle
    /\ RuntimeIdle
    /\ ResolverIdle
    /\ text \in Texts
    /\ chunk_size \in ChunkSizes
    /\ chunk_overlap \in ChunkOverlaps
    /\ loop = LoopStart
    /\ truncated = FALSE
    /\ tick = 0
    /\ pc = "call"

\* `if not text or len(text) == 0: return []`
ReturnEmpty ==
    /\ pc = "call"
    /\ Len(text) = 0
    /\ pc' = "done"
    /\ UNCHANGED <<text, chunk_size, chunk_overlap, loop, truncated, tick>>
    /\ UNCHANGED <<storeVars, resolverVars, runtimeVars>>

EnterLoop ==
    /\ pc = "call"
    /\ Len(text) # 0
    /\ pc' = "loop"
    /\ UNCHANGED <<text, chunk_size, chunk_overlap, loop, truncated, tick>>
    /\ UNCHANGED <<storeVars, resolverVars, runtimeVars>>

\* one iteration of `while start < len(text)`
LoopIter ==
    /\ pc = "loop"
    /\ \E st \in {LoopBody(text, chunk_size, chunk_overlap, loop)} :
           /\ loop' = Capped(st)
           /\ truncated' = (truncated \/ Len(st.chunks) > MaxChunks)
           /\ pc' = IF st.more THEN "loop" ELSE "done"
    /\ tick' = 1 - tick
    /\ UNCHANGED <<text, chunk_size, chunk_overlap>>
    /\ UNCHANGED <<storeVars, resolverVars, runtimeVars>>

ChunkNext == ReturnEmpty \/ EnterLoop \/ LoopIter

\* chunk_text followed iteration by iteration, over every text and
\* parameter pair within the bounds
SpecChunk == ChunkInit /\ [][ChunkNext]_vars

\* chunk_text over the texts without whitespace, with windows one character
\* wider, under the interpreter's scheduling: a call that has a next step
\* takes it
PlainInit ==
    /\ StoreIdle
    /\ RuntimeIdle
    /\ ResolverIdle
    /\ text \in PlainTexts
    /\ chunk_size \in 1..(MaxSize + 1)
    /\ chunk_overlap \in 0..(MaxSize + 1)
    /\ loop = LoopStart
    /\ truncated = FALSE
    /\ tick = 0
    /\ pc = "call"

FairChunk == PlainInit /\ [][ChunkNext]_vars /\ WF_vars(ChunkNext)

\* chunk_text over texts one character longer, with a window wide enough
\* for its second half to hold two delimiters
BoundaryTexts == UNION {[1..n -> Chars] : n \in 0..(MaxLen + 1)}

BoundaryInit ==
    /\ StoreIdle
    /\ RuntimeIdle
    /\ ResolverIdle
    /\ text \in BoundaryTexts
    /\ chunk_size = MaxSize + 1
    /\ chunk_overlap \in {0, 1}
    /\ loop = LoopStart
    /\ truncated = FALSE
    /\ tick = 0
    /\ pc = "call"

SpecBoundary == BoundaryInit /\ [][ChunkNext]_vars

\* POST /vectordb/add-document: the form's chunk parameters as a client
\* may send them, inside and outside the declared ranges
RequestSizes == 0..(MaxSize + 1)
RequestOverlaps == (0 - 1)..(MaxSize + 1)

IngestInit ==
    /\ StoreIdle
    /\ RuntimeIdle
    /\ ResolverIdle
    /\ text \in Texts
    /\ chunk_size \in RequestSizes
    /\ chunk_overlap \in RequestOverlaps
    /\ loop = LoopStart
    /\ truncated = FALSE
    /\ tick = 0
    /\ pc = "request"

\* Form(ge=100, le=5000) on chunk_size and Form(ge=0, le=500) on
\* chunk_overlap, each checked on its own
FormAccepts(size, overlap) == size \in ChunkSizes /\ overlap \in ChunkOverlaps

\* the route up to its call of VectorDBService.add_document: the form is
\* validated, a text that is blank after strip() is refused, and the
\* parameters are passed on as received
ValidateRequest ==
    /\ pc = "request"
    /\ pc' = IF FormAccepts(chunk_size, chunk_overlap) /\ Strip(text) # <<>>
             THEN "call" ELSE "rejected"
    /\ UNCHANGED <<text, chunk_size, chunk_overlap, loop, truncated, tick>>
    /\ UNCHANGED <<storeVars, resolverVars, runtimeVars>>

\* a text that passed the route is never empty
IngestNext == ValidateRequest \/ EnterLoop \/ LoopIter

SpecIngest == IngestInit /\ [][IngestNext]_vars

(***************************************************************************)
(* The chunk store's operations.  No handler awaits anything between its   *)
(* calls into the index, so each runs to its end as one step.              *)
(***************************************************************************)
Exists(c) == c \in DOMAIN index
Records(c) == IF Exists(c) THEN index[c] ELSE {}

\* the number of chunks in the index
RECURSIVE CountIn(_)
CountIn(cs) ==
    IF cs = {} THEN 0
    ELSE LET c == CHOOSE x \in cs : TRUE
         IN  Cardinality(index[c]) + CountIn(cs \ {c})
Stored == CountIn(DOMAIN index)

\* a variant that writes recs into every collection
WithCollectionShared(c, recs) == [x \in DOMAIN index \cup {c} |-> recs]

\* the index with collection c holding recs
WithCollection(c, recs) ==
    [x \in DOMAIN index \cup {c} |-> IF x = c THEN recs ELSE index[x]]

\* a variant without the guard
NeverReturnsEarly == FALSE

\* `if cls._initialized: return`
ReturnsEarly == _initialized

\* VectorDBService.initialize returns without raising: it returned early, or
\* the index could be opened
InitOk == ReturnsEarly \/ backendUp

\* VectorDBService.initialize, as every operation's first lines run it:
\* nothing when already initialized, else the client is built, which
\* fails when the index cannot be opened
Initialized ==
    IF ~ReturnsEarly /\ backendUp
    THEN /\ _client' = "PersistentClient"
         /\ _initialized' = TRUE
         /\ clients_built' = clients_built + 1
    ELSE UNCHANGED <<_initialized, _client, clients_built>>

\* the lifespan hook's call at startup (its failure is printed and dropped)
Initialize ==
    /\ Initialized
    /\ ret' = [op |-> "initialize", raised |-> ~InitOk]
    /\ UNCHANGED <<index, backendUp>>
    /\ UNCHANGED <<chunkVars, resolverVars, runtimeVars>>

\* VectorDBService.add_document
AddDocument(t, filename, c, metadata) ==
    /\ Initialized
    /\ \E run \in {chunk_text(t, StoreParams.chunk_size, StoreParams.chunk_overlap)} :
         LET failed == [op |-> "add", text |-> t, collection_name |-> c,
                        filename |-> filename, raised |-> TRUE, count |-> 0,
                        ids |-> {}]
         IN  /\ run.returned
             /\ IF ~InitOk
                THEN ret' = failed /\ UNCHANGED index
                ELSE IF run.chunks = <<>>
                THEN ret' = [failed EXCEPT !.raised = FALSE] /\ UNCHANGED index
                ELSE IF ~backendUp
                THEN ret' = failed /\ UNCHANGED index
                ELSE \E salts \in [1..Len(run.chunks) -> Salts] :
                       \E new \in {NewRecords(run.chunks, filename, metadata, salts)} :
                          \E recs \in {CollectionAdd(Records(c), new)} :
                             /\ Stored - Cardinality(Records(c)) + Cardinality(recs)
                                    <= MaxStored
                             /\ index' = WithCollection(c, recs)
                             /\ ret' = [op |-> "add", text |-> t, collection_name |-> c,
                                        filename |-> filename, raised |-> FALSE,
                                        count |-> Len(run.chunks),
                                        ids |-> {r.id : r \in new}]
    /\ UNCHANGED backendUp
    /\ UNCHANGED <<chunkVars, resolverVars, runtimeVars>>

\* VectorDBService.query_documents: what the call raises or returns
QueryOutcomes(c, top_k) ==
    IF ~InitOk THEN {[raised |-> TRUE, value |-> <<>>]}
    ELSE IF ~backendUp \/ ~Exists(c) THEN {QueryMissing}
    ELSE {[raised |-> FALSE, value |-> QueryResults(h)] : h \in QueryHits(index[c], top_k)}

QueryDocuments(q, c, top_k) ==
    /\ Initialized
    /\ \E out \in QueryOutcomes(c, top_k) :
          ret' = [op |-> "query", collection_name |-> c, top_k |-> top_k,
                  raised |-> out.raised, value |-> out.value]
    /\ UNCHANGED <<index, backendUp>>
    /\ UNCHANGED <<chunkVars, resolverVars, runtimeVars>>

\* VectorDBService.delete_document; document_id is {} for None, else {id}
DeleteDocument(c, document_id, filename) ==
    /\ Initialized
    /\ LET args == [op |-> "delete", collection_name |-> c,
                    document_id |-> document_id, filename |-> filename]
           done(raised, n) == args @@ [raised |-> raised, value |-> n]
       IN  IF ~InitOk
           THEN ret' = done(TRUE, 0) /\ UNCHANGED index
           ELSE IF ~backendUp \/ ~Exists(c)
           THEN ret' = done(FALSE, 0) /\ UNCHANGED index
           ELSE IF document_id # {}
           THEN /\ index' = WithCollection(c, CollectionDelete(index[c], document_id))
                /\ ret' = done(FALSE, 1)
           ELSE IF filename # None
           THEN LET ids == WhereFilename(index[c], filename)
                IN  IF ids # {}
                    THEN /\ index' = WithCollection(c, CollectionDelete(index[c], ids))
                         /\ ret' = done(FALSE, Cardinality(ids))
                    ELSE ret' = done(FALSE, 0) /\ UNCHANGED index
           ELSE ret' = done(FALSE, 0) /\ UNCHANGED index
    /\ UNCHANGED backendUp
    /\ UNCHANGED <<chunkVars, resolverVars, runtimeVars>>

\* VectorDBService.answer_question
AnswerQuestion(q, c, top_k, similarity_threshold) ==
    /\ Initialized
    /\ \E out \in QueryOutcomes(c, top_k) :
          ret' = [op |-> "answer", collection_name |-> c, top_k |-> top_k,
                  raised |-> out.raised,
                  value |-> IF out.raised THEN <<>>
                            ELSE AnswerFrom(q, out.value, top_k,
                                            similarity_threshold)]
    /\ UNCHANGED <<index, backendUp>>
    /\ UNCHANGED <<chunkVars, resolverVars, runtimeVars>>

\* VectorDBService.list_collections: the names, unless the index fails
ListCollections ==
    /\ Initialized
    /\ ret' = [op |-> "list", raised |-> ~InitOk \/ ~backendUp,
               value |-> IF InitOk /\ backendUp THEN DOMAIN index ELSE {}]
    /\ UNCHANGED <<index, backendUp>>
    /\ UNCHANGED <<chunkVars, resolverVars, runtimeVars>>

\* VectorDBService.get_collection_info: any exception of get_collection or
\* count is answered with exists = False
GetCollectionInfo(c) ==
    /\ Initialized
    /\ ret' = [op |-> "info", collection_name |-> c, raised |-> ~InitOk,
               value |-> IF InitOk /\ backendUp /\ Exists(c)
                         THEN [exists |-> TRUE,
                               document_count |-> Cardinality(index[c])]
                         ELSE [exists |-> FALSE, document_count |-> 0]]
    /\ UNCHANGED <<index, backendUp>>
    /\ UNCHANGED <<chunkVars, resolverVars, runtimeVars>>

\* a Python value with its type: the names list_collections returns are
\* str objects
PyStr(v) == [type |-> "str", value |-> v]

\* pydantic's validation of one entry of `collections: List[CollectionDetail]`:
\* a CollectionDetail, or a mapping with its fields, is accepted
ValidatesAsCollectionDetail(entry) == entry.type \in {"CollectionDetail", "dict"}

\* GET /vectordb/collections: the names of the service are handed to
\* ListCollectionsResponse as they are; a failure of the service call or
\* of the response's validation is answered with status 500
ListCollectionsRoute ==
    /\ Initialized
    /\ LET raised == ~InitOk \/ ~backendUp
           collections == {PyStr(n) : n \in DOMAIN index}
       IN  ret' = IF raised \/ \E e \in collections : ~ValidatesAsCollectionDetail(e)
                  THEN [op |-> "GET /collections", status |-> 500,
                        success |-> FALSE, collections |-> {},
                        total_collections |-> 0]
                  ELSE [op |-> "GET /collections", status |-> 200,
                        success |-> TRUE, collections |-> collections,
                        total_collections |-> Cardinality(collections)]
    /\ UNCHANGED <<index, backendUp>>
    /\ UNCHANGED <<chunkVars, resolverVars, runtimeVars>>

\* the index becomes unreachable, or reachable again
BackendFlips ==
    /\ backendUp' = ~backendUp
    /\ ret' = [op |-> "none"]
    /\ UNCHANGED <<_initialized, _client, index, clients_built>>
    /\ UNCHANGED <<chunkVars, resolverVars, runtimeVars>>

\* the document_id arguments tried: None, an id no add_document call has
\* produced, and the ids stored in c
DeleteIds(c) ==
    {{}, {generate_document_id("a.txt", 0, "00000000")}} \cup {{r.id} : r \in Records(c)}

AddAny ==
    \E t \in Documents, f \in Filenames, c \in CollectionNames, m \in ExtraMetadata :
        AddDocument(t, f, c, m)

QueryAny ==
    \E q \in Queries, c \in CollectionNames, k \in TopKs : QueryDocuments(q, c, k)

DeleteAny ==
    \E c \in CollectionNames, f \in Filenames \cup {None} :
        \E i \in DeleteIds(c) : DeleteDocument(c, i, f)

AnswerAny ==
    \E q \in Queries, c \in CollectionNames, k \in TopKs, th \in Thresholds :
        AnswerQuestion(q, c, k, th)

InfoAny == \E c \in CollectionNames : GetCollectionInfo(c)

StoreNext ==
    \/ Initialize
    \/ AddAny
    \/ QueryAny
    \/ DeleteAny
    \/ AnswerAny
    \/ ListCollections
    \/ InfoAny
    \/ ListCollectionsRoute
    \/ BackendFlips

StoreInit == ChunkIdle /\ StoreIdle /\ ResolverIdle /\ RuntimeIdle

Spec == StoreInit /\ [][StoreNext]_vars

(***************************************************************************)
(* The answer resolver's steps.  Both implementations call the             *)
(* collaborator synchronously: the call waits in the invocation until the  *)
(* collaborator replies.                                                   *)
(***************************************************************************)
\* the route's `if not openai_client`, the voice service's test of the key
Ready(impl) ==
    IF impl = "route" THEN openai_client # None ELSE Configured(OPENAI_API_KEY)

Returns(res) ==
    /\ result' = res
    /\ rpc' = "returned"

\* the invocations with the reply to the one under way filled in
Answered(reply) == [invocations EXCEPT ![Len(invocations)].reply = reply]

\* the call, up to its first collaborator invocation or its return
Resolve(impl, query, chunks, fallback_to_gpt) ==
    /\ rpc \in {"idle", "returned"}
    /\ call' = [impl |-> impl, query |-> query, chunks |-> chunks,
                fallback_to_gpt |-> fallback_to_gpt]
    /\ previous' = IF rpc = "returned"
                   THEN [call |-> call, invocations |-> invocations,
                         result |-> result]
                   ELSE previous
    /\ IF ~Ready(impl)
       THEN /\ invocations' = <<>>
            /\ Returns(Unconfigured(impl))
       ELSE IF NoContent(chunks)
       THEN IF fallback_to_gpt
            THEN /\ invocations' = <<BareInvocation(query)>>
                 /\ rpc' = "direct"
                 /\ result' = NoResult
            ELSE /\ invocations' = <<>>
                 /\ Returns(Result(impl, NoRelevantInformation, SourceNone, FALSE))
       ELSE /\ invocations' = <<GroundedInvocation(query, Context(chunks))>>
            /\ rpc' = "grounded"
            /\ result' = NoResult
    /\ UNCHANGED <<OPENAI_API_KEY, openai_client>>
    /\ UNCHANGED <<chunkVars, storeVars, runtimeVars>>

\* the collaborator replies to the invocation made for want of content
DirectReply(reply) ==
    /\ rpc = "direct"
    /\ invocations' = Answered(reply)
    /\ IF reply.kind = "raise"
       THEN Returns(Result(call.impl, ErrorAnswer(reply.content), SourceError, FALSE))
       ELSE Returns(Result(call.impl, reply, SourceGpt, FALSE))
    /\ UNCHANGED <<OPENAI_API_KEY, openai_client, call, previous>>
    /\ UNCHANGED <<chunkVars, storeVars, runtimeVars>>

\* the collaborator replies to the context-grounded invocation
GroundedReply(reply) ==
    /\ rpc = "grounded"
    /\ IF reply.kind = "raise"
       THEN /\ invocations' = Answered(reply)
            /\ Returns(Result(call.impl, ErrorAnswer(reply.content), SourceError, FALSE))
       ELSE IF reply.kind = "None"
       THEN \* `"NOT_FOUND_IN_DOCS" in None` raises TypeError
            /\ invocations' = Answered(reply)
            /\ Returns(Result(call.impl, ErrorAnswer(<<"TypeError">>), SourceError, FALSE))
       ELSE IF ContainsSentinel(reply) /\ call.fallback_to_gpt
       THEN /\ invocations' = Append(Answered(reply), BareInvocation(call.query))
            /\ rpc' = "fallback"
            /\ UNCHANGED result
       ELSE /\ invocations' = Answered(reply)
            /\ Returns(Result(call.impl, reply, SourceDocument, TRUE))
    /\ UNCHANGED <<OPENAI_API_KEY, openai_client, call, previous>>
    /\ UNCHANGED <<chunkVars, storeVars, runtimeVars>>

\* the collaborator replies to the invocation made after the sentinel
FallbackReply(reply) ==
    /\ rpc = "fallback"
    /\ invocations' = Answered(reply)
    /\ IF reply.kind = "raise"
       THEN Returns(Result(call.impl, ErrorAnswer(reply.content), SourceError, FALSE))
       ELSE Returns(Result(call.impl, reply, SourceGpt, FALSE))
    /\ UNCHANGED <<OPENAI_API_KEY, openai_client, call, previous>>
    /\ UNCHANGED <<chunkVars, storeVars, runtimeVars>>

ResolveAny ==
    \E impl \in Implementations, q \in ResolverQueries, chunks \in RetrievedChunks,
       fb \in BOOLEAN : Resolve(impl, q, chunks, fb)

ResolverNext ==
    \/ ResolveAny
    \/ \E reply \in Replies : DirectReply(reply)
    \/ \E reply \in Replies : GroundedReply(reply)
    \/ \E reply \in Replies : FallbackReply(reply)

\* the module attribute is built at import from the environment
ResolverInit ==
    /\ ChunkIdle
    /\ StoreIdle
    /\ RuntimeIdle
    /\ OPENAI_API_KEY \in ApiKeys
    /\ openai_client = IF Configured(OPENAI_API_KEY) THEN "OpenAI" ELSE None
    /\ call = NoCall
    /\ invocations = <<>>
    /\ result = NoResult
    /\ rpc = "idle"
    /\ previous = NoPrevious

SpecResolver == ResolverInit /\ [][ResolverNext]_vars

(***************************************************************************)
(* The service runtime: the `async def` route handlers on the event loop.  *)
(***************************************************************************)
Routes == {"query", "add-document", "voice"}

\* what a handler does after it is started, in order: `await file.read()`
\* of the upload, and the calls into the collaborators (the vector index,
\* the generative backend, the extraction adapter)
Handler(route) ==
    IF route = "query" THEN <<"index", "generative">>
    ELSE IF route = "add-document" THEN <<"read", "extract", "index">>
    ELSE <<"read", "generative", "index", "generative">>

Collaborators == {"index", "generative", "extract"}

\* the steps at which the handler's coroutine yields to the event loop:
\* UploadFile.read() only.  The collaborators are called synchronously,
\* and `await` of a coroutine that never yields (VectorDBService's
\* methods) does not yield either
Yields(step) == step = "read"

Started(r) == requests[r].at >= 1
Finished(r) == requests[r].at > Len(Handler(requests[r].route))
\* the step the handler of r is in
StepOf(r) ==
    IF Started(r) /\ ~Finished(r)
    THEN Handler(requests[r].route)[requests[r].at] ELSE "none"

\* the handler of r runs on to its next step, or to its end; the thread is
\* given back when the new step yields and when the handler returns
MovesOn(r) ==
    LET moved == [requests EXCEPT ![r].at = @ + 1]
        n == moved[r].at
        steps == Handler(moved[r].route)
    IN  /\ requests' = moved
        /\ thread' = IF n > Len(steps) THEN NoRequest
                     ELSE IF Yields(steps[n]) THEN NoRequest ELSE r
        /\ UNCHANGED <<chunkVars, storeVars, resolverVars>>

\* the event loop starts the handler of a request
Dispatch(r) ==
    /\ thread = NoRequest
    /\ ~Started(r)
    /\ MovesOn(r)

\* the event loop resumes a handler whose awaited step has completed
Resume(r) ==
    /\ thread = NoRequest
    /\ StepOf(r) # "none" /\ Yields(StepOf(r))
    /\ MovesOn(r)

\* a synchronous call returns to the handler that made it
CallReturns(r) ==
    /\ thread = r
    /\ StepOf(r) # "none" /\ ~Yields(StepOf(r))
    /\ MovesOn(r)

DispatchAny == \E r \in RequestIds : Dispatch(r)
ResumeAny == \E r \in RequestIds : Resume(r)
CallReturnsAny == \E r \in RequestIds : CallReturns(r)

RuntimeNext == DispatchAny \/ ResumeAny \/ CallReturnsAny

RuntimeInit ==
    /\ ChunkIdle
    /\ StoreIdle
    /\ ResolverIdle
    /\ requests \in [RequestIds -> [route : Routes, at : {0}]]
    /\ thread = NoRequest

SpecRuntime == RuntimeInit /\ [][RuntimeNext]_vars

ValidParams == chunk_size > 0 /\ 0 <= chunk_overlap /\ chunk_overlap < chunk_size

Returned == pc = "done"

\* the character positions inside the span of some returned chunk
Covered ==
    {p \in 0..(Len(text) - 1) :
        \E k \in 1..Len(loop.chunks) :
            loop.chunks[k].start_char <= p /\ p < loop.chunks[k].end_char}

(***************************************************************************)
(* Claims about chunk_text.                                                *)
(***************************************************************************)

\* C1: for non-empty text and chunk_size > 0, 0 <= chunk_overlap <
\* chunk_size, the call terminates: the loop exits and a list is returned.
C1_Terminates == (Len(text) > 0 /\ ValidParams) => <>Returned

\* C2: every returned chunk has 0 <= start_char < end_char <= len(text).
C2_SpanInsideText ==
    Returned =>
        \A k \in 1..Len(loop.chunks) :
            /\ 0 <= loop.chunks[k].start_char
            /\ loop.chunks[k].start_char < loop.chunks[k].end_char
            /\ loop.chunks[k].end_char <= Len(text)

\* C3 (as stated): for non-empty text and valid parameters every character
\* position 0..len(text)-1 lies in the span of a returned chunk.
C3_EveryPositionCovered ==
    (Returned /\ Len(text) > 0 /\ ValidParams) =>
        \A p \in 0..(Len(text) - 1) : p \in Covered

\* C3 (amended): for non-empty text and valid parameters every position
\* that holds a non-whitespace character lies in the span of a returned
\* chunk; positions left out belong to windows that held whitespace only.
C3_NonBlankCovered ==
    (Returned /\ Len(text) > 0 /\ ValidParams) =>
        \A p \in 0..(Len(text) - 1) : ~IsSpace(text[p + 1]) => p \in Covered

\* a returned run that dropped a whitespace-only window between two chunks
C3_Witness ==
    /\ Returned /\ ValidParams /\ Len(loop.chunks) >= 2
    /\ \E p \in 0..(Len(text) - 1) :
          /\ p \notin Covered
          /\ loop.chunks[1].end_char <= p
          /\ p < loop.chunks[Len(loop.chunks)].start_char

\* C4: the chunk_index values of a returned list are 0, 1, ..., n-1 in
\* list order, also when a whitespace-only window was dropped.
C4_IndicesContiguous ==
    Returned => \A k \in 1..Len(loop.chunks) : loop.chunks[k].chunk_index = k - 1

\* three chunks returned with a dropped window before the last one
C4_Witness ==
    /\ Returned /\ Len(loop.chunks) >= 3
    /\ \E p \in 0..(Len(text) - 1) :
          p \notin Covered /\ p < loop.chunks[Len(loop.chunks)].start_char

\* C5: no returned chunk has empty or whitespace-only content, whatever
\* the text and the parameters.
C5_ContentNotBlank ==
    Returned =>
        \A k \in 1..Len(loop.chunks) :
            \E i \in 1..Len(loop.chunks[k].content) :
                ~IsSpace(loop.chunks[k].content[i])

\* a returned run that dropped a whitespace-only window and trimmed a chunk
C5_Witness ==
    /\ Returned /\ Len(loop.chunks) >= 1
    /\ \E p \in 0..(Len(text) - 1) : p \notin Covered
    /\ \E k \in 1..Len(loop.chunks) :
          Len(loop.chunks[k].content)
              < Norm(loop.chunks[k].end_char, Len(text)) - loop.chunks[k].start_char

(***************************************************************************)
(* Claims about the chunk store.                                           *)
(***************************************************************************)

\* the stored chunks of collection c whose metadata filename is f
Matching(c, f) == {r \in Records(c) : r.metadata.filename = f}

\* C6: every delete_document(collection, filename=f) call that returns has
\* removed from the collection exactly the chunks whose stored metadata
\* filename is f, has left the collection's other chunks as they were, and
\* has returned the number of chunks removed.
C6_DeleteByFilename ==
    [][\A c \in CollectionNames, f \in Filenames :
          (/\ ret'.op = "delete" /\ ~ret'.raised
           /\ ret'.collection_name = c /\ ret'.document_id = {} /\ ret'.filename = f)
          => /\ Records(c)' = Records(c) \ Matching(c, f)
             /\ ret'.value = Cardinality(Matching(c, f))]_vars

\* the same while the index can be reached
C6_ReachableDeleteByFilename ==
    [][\A c \in CollectionNames, f \in Filenames :
          (/\ backendUp
           /\ ret'.op = "delete" /\ ~ret'.raised
           /\ ret'.collection_name = c /\ ret'.document_id = {} /\ ret'.filename = f)
          => /\ Records(c)' = Records(c) \ Matching(c, f)
             /\ ret'.value = Cardinality(Matching(c, f))]_vars

\* the collection a query or answer call named holds no chunk, or is missing
AskedMissingOrEmpty ==
    ret.op \in {"query", "answer"} /\ Records(ret.collection_name) = {}

\* what C7 asks of the call's outcome
EmptyOutcome ==
    /\ ~ret.raised
    /\ ret.op = "query" => ret.value = <<>>
    /\ ret.op = "answer" => ~ret.value.has_answer /\ ret.value.sources = <<>>

\* C7 (as stated): query_documents on a collection that is missing or holds
\* no chunk returns an empty list and never raises; answer_question on it
\* returns has_answer = false with no sources.
C7_MissingNeverRaises == AskedMissingOrEmpty => EmptyOutcome

\* C7 (amended): once the service is initialized (the index was opened, at
\* startup or by the call itself), query_documents on a collection that is
\* missing or holds no chunk returns an empty list without raising, and
\* answer_question returns has_answer = false with no sources.
C7_MissingIsEmptyOnceOpened == (_initialized /\ AskedMissingOrEmpty) => EmptyOutcome

\* answer_question returned on a collection that exists and was emptied
C7_Witness ==
    /\ _initialized /\ ret.op = "answer"
    /\ Exists(ret.collection_name) /\ Records(ret.collection_name) = {}
    /\ ~ret.value.has_answer

(***************************************************************************)
(* Claims about the answer resolver.                                       *)
(***************************************************************************)
ResolverReturned == rpc = "returned"

\* found_in_docs is false in a result that has the key
NotFoundInDocs == "found_in_docs" \in DOMAIN result => ~result.found_in_docs

\* the i-th invocation carried the bare query: general-knowledge
\* instructions, the call's query, no document context
IsBare(i) ==
    /\ invocations[i].system = "general"
    /\ ~invocations[i].has_context
    /\ invocations[i].question = call.query

\* C8: for every query, when the retrieved-chunk list is empty or its joined
\* content is blank and fallback is disabled, the resolver returns source
\* 'none', found_in_docs = false and the fixed no-relevant-information
\* answer, having made no collaborator invocation.
C8_NoContentNoFallbackIsNone ==
    (ResolverReturned /\ NoContent(call.chunks) /\ ~call.fallback_to_gpt)
    => /\ result.source = SourceNone
       /\ result.answer = NoRelevantInformation
       /\ NotFoundInDocs
       /\ invocations = <<>>

SentinelSeen ==
    /\ rpc \in {"fallback", "returned"}
    /\ call.fallback_to_gpt
    /\ Len(invocations) >= 1
    /\ invocations[1].system = "grounded"
    /\ invocations[1].reply.kind = "text"
    /\ \E i \in 1..Len(invocations[1].reply.content) :
          invocations[1].reply.content[i] = "NOT_FOUND_IN_DOCS"

GroundedKept ==
    /\ rpc \in {"fallback", "returned"}
    /\ Len(invocations) >= 1
    /\ invocations[1].system = "grounded"
    /\ invocations[1].reply.kind = "text"
    /\ \/ ~call.fallback_to_gpt
       \/ \A i \in 1..Len(invocations[1].reply.content) :
             invocations[1].reply.content[i] # "NOT_FOUND_IN_DOCS"

\* found_in_docs is true in a result that has the key
FoundInDocs == "found_in_docs" \in DOMAIN result => result.found_in_docs

\* C11: with non-empty context, whenever the context-grounded response (a
\* text) does not contain NOT_FOUND_IN_DOCS or fallback is disabled, the
\* resolver has made exactly one invocation, the grounded one carrying the
\* context and the query, and returns that response unchanged with source
\* 'document' and found_in_docs = true.
C11_GroundedIsDocument ==
    GroundedKept
    => /\ ResolverReturned
       /\ Len(invocations) = 1
       /\ invocations[1].has_context
       /\ invocations[1].context = Context(call.chunks)
       /\ invocations[1].question = call.query
       /\ result.answer = invocations[1].reply
       /\ result.source = "document"
       /\ FoundInDocs

\* with fallback disabled a reply holding the sentinel was returned as the
\* document answer
C11_Witness ==
    /\ ResolverReturned /\ ~call.fallback_to_gpt
    /\ Len(invocations) = 1
    /\ invocations[1].reply = Text(<<Sentinel>>)
    /\ result.answer = Text(<<Sentinel>>) /\ result.source = "document"

\* the collaborator of the returned call was misconfigured (no usable
\* credential) or one of the call's invocations failed
CollaboratorFailed ==
    /\ ResolverReturned
    /\ \/ ~Ready(call.impl)
       \/ \E i \in 1..Len(invocations) : invocations[i].reply.kind = "raise"

\* C12: if the collaborator is misconfigured (the credential is missing) or
\* fails at any invocation, the resolver returns source 'error' with a
\* non-empty diagnostic answer text, and the failed invocation is the last
\* one the call makes (no retry).
C12_FailureIsError ==
    CollaboratorFailed
    => /\ result.source = "error"
       /\ result.answer.kind = "text" /\ result.answer.content # <<>>
       /\ \A i \in 1..Len(invocations) :
             invocations[i].reply.kind = "raise" => i = Len(invocations)

\* the same for a call whose collaborator is configured
C12_ConfiguredFailureIsError == Ready(call.impl) => C12_FailureIsError

\* C13: while the index can be reached, every delete_document(collection,
\* document_id=i) call that returns has returned 1 and removed the chunk
\* when a chunk with id i was stored in the collection, and has returned 0
\* and left the store unchanged when none was.
C13_DeleteById ==
    [][\A c \in CollectionNames :
          (/\ backendUp
           /\ ret'.op = "delete" /\ ~ret'.raised
           /\ ret'.collection_name = c /\ ret'.document_id # {})
          => IF \E r \in Records(c) : r.id \in ret'.document_id
             THEN /\ ret'.value = 1
                  /\ Records(c)' = {r \in Records(c) : r.id \notin ret'.document_id}
             ELSE /\ ret'.value = 0
                  /\ index' = index]_vars

\* the part of it about ids that are stored
C13_DeleteStoredId ==
    [][\A c \in CollectionNames :
          (/\ backendUp
           /\ ret'.op = "delete" /\ ~ret'.raised
           /\ ret'.collection_name = c /\ ret'.document_id # {}
           /\ \E r \in Records(c) : r.id \in ret'.document_id)
          => /\ ret'.value = 1
             /\ Records(c)' = {r \in Records(c) : r.id \notin ret'.document_id}]_vars

\* C14: when the index cannot be reached, delete_document raises, so it
\* never returns 0 for a backend failure, and an add_document call that
\* returns without raising is one that had no chunk to store and made no
\* call into the index.
C14_BackendDownSurfaces ==
    ~backendUp
    => /\ ret.op = "delete" => ret.raised
       /\ (ret.op = "add" /\ ~ret.raised) => (ret.count = 0 /\ ret.ids = {})

\* the part of it about add_document
C14_AddSurfaces ==
    (~backendUp /\ ret.op = "add" /\ ~ret.raised) => (ret.count = 0 /\ ret.ids = {})

C16_BlankIngestIsEmpty ==
    [][(ret'.op = "add" /\ Strip(ret'.text) = <<>>)
       => /\ ~ret'.raised
          /\ ret'.count = 0 /\ ret'.ids = {}
          /\ index' = index]_vars

\* the same for calls after which the service is initialized
C16_BlankIngestOnceOpened ==
    [][(ret'.op = "add" /\ Strip(ret'.text) = <<>> /\ _initialized')
       => /\ ~ret'.raised
          /\ ret'.count = 0 /\ ret'.ids = {}
          /\ index' = index]_vars

SourceKinds == {"document", "gpt", "none", "error"}

\* C17: every result the resolver returns, on every path and whatever the
\* credential, has a source in {document, gpt, none, error}, and its
\* found_in_docs, where the result has one, is true exactly when the source
\* is document.
C17_SourceKindClosed ==
    ResolverReturned
    => /\ result.source \in SourceKinds
       /\ "found_in_docs" \in DOMAIN result
          => (result.found_in_docs <=> result.source = "document")

\* the same for calls whose collaborator is configured
C17_ConfiguredSourceKindClosed == Ready(call.impl) => C17_SourceKindClosed

\* C18: once the service is initialized, no step (an initialize call at
\* startup or directly, or the lazy guard of any operation) changes
\* _initialized, _client or the number of clients built, and an initialize
\* call raises nothing; over any sequence of operations at most one client
\* is built, and _initialized implies that the client handle is set.
C18_InitializeIdempotent ==
    [][/\ _initialized
          => /\ _initialized' /\ _client' = _client
             /\ clients_built' = clients_built
             /\ ret'.op = "initialize" => ~ret'.raised
       /\ clients_built' <= 1
       /\ _initialized' => _client' # None]_vars

\* initialize was called on the initialized service while the index could
\* not be reached, and returned
C18_Witness ==
    /\ _initialized /\ ~backendUp /\ clients_built = 1
    /\ ret.op = "initialize" /\ ~ret.raised

\* C19: every stored chunk's metadata holds, under "filename", the filename
\* passed to the add_document call that stored it (the one its id was
\* derived from) and, under "chunk_index", the chunk's own index, whatever
\* extra metadata the caller supplied.
C19_MetadataRecordsOwner ==
    \A c \in DOMAIN index : \A r \in index[c] :
        /\ r.metadata.filename = r.id.filename
        /\ r.metadata.chunk_index = r.id.chunk_index

\* what holds of every stored chunk: the two keys are present, and a
\* filename that is not the call's is the one the caller's metadata gave
C19_MetadataKeysPresent ==
    \A c \in DOMAIN index : \A r \in index[c] :
        /\ {"filename", "chunk_index"} \subseteq DOMAIN r.metadata
        /\ r.metadata.chunk_index = r.id.chunk_index
        /\ r.metadata.filename # r.id.filename
           => \E m \in ExtraMetadata :
                 "filename" \in DOMAIN m /\ r.metadata.filename = m.filename

\* collections come into being only by an add_document call that returned a
\* count of at least one, which creates the collection it targets; no other
\* step creates one, and none goes away
CreatedOnlyByInsertion ==
    /\ DOMAIN index \subseteq DOMAIN index'
    /\ DOMAIN index' # DOMAIN index
       => /\ ret'.op = "add" /\ ~ret'.raised /\ ret'.count >= 1
          /\ DOMAIN index' = DOMAIN index \cup {ret'.collection_name}
    /\ (ret'.op = "add" /\ ~ret'.raised /\ ret'.count >= 1)
       => ret'.collection_name \in DOMAIN index'

\* list_collections and get_collection_info, when they return, report the
\* collections that exist
ReportedAsExisting ==
    /\ (ret'.op = "list" /\ ~ret'.raised) => ret'.value = DOMAIN index
    /\ (ret'.op = "info" /\ ~ret'.raised)
       => (ret'.value.exists <=> ret'.collection_name \in DOMAIN index)

\* C20: a collection exists, i.e. is listed by list_collections and reported
\* exists = true by get_collection_info, if and only if an earlier
\* add_document call that produced at least one chunk targeted it; queries,
\* deletes, get_collection_info, answer_question and empty ingests never
\* create one.
C20_ExistsIffInserted == [][CreatedOnlyByInsertion /\ ReportedAsExisting]_vars

\* the same while the index can be reached
C20_ReachableExistsIffInserted ==
    [][CreatedOnlyByInsertion /\ (backendUp => ReportedAsExisting)]_vars

(***************************************************************************)
(* Further claims about chunk_text.                                        *)
(***************************************************************************)

\* an iteration of the loop of a call with valid parameters
ValidIteration == pc = "loop" /\ tick' # tick /\ ValidParams

\* C21: with 0 <= chunk_overlap < chunk_size the window start increases by
\* at least one character on every loop iteration and never becomes
\* negative, so start_char never decreases from one chunk to the next.
C21_StartAdvances ==
    [][ValidIteration =>
          /\ loop'.start >= loop.start + 1
          /\ loop'.start >= 0
          /\ \A k \in 2..Len(loop'.chunks) :
                loop'.chunks[k - 1].start_char <= loop'.chunks[k].start_char]_vars

\* the text of the worked example, to be chunked with chunk_size 40 and
\* chunk_overlap 5
ExampleText ==
    <<"P", "a", "r", "i", "s", " ", "i", "s", " ", "t", "h", "e", " ", "c",
      "a", "p", "i", "t", "a", "l", " ", "o", "f", " ", "F", "r", "a", "n",
      "c", "e", ".", " ", "I", "t", " ", "i", "s", " ", "k", "n", "o", "w",
      "n", " ", "f", "o", "r", " ", "t", "h", "e", " ", "E", "i", "f", "f",
      "e", "l", " ", "T", "o", "w", "e", "r", ".">>

ExampleChunks == chunk_text(ExampleText, 40, 5)

\* the second half of the window that starts at s: the indices of the
\* window past s + chunk_size // 2
SecondHalf(s) == {i \in 0..(Len(text) - 1) :
                    s + (chunk_size \div 2) < i /\ i < s + chunk_size}

DelimitersIn(s, ch) == {i \in SecondHalf(s) : text[i + 1] = ch}

\* where the window that starts at s is to be cut
ExpectedCut(s) ==
    IF DelimitersIn(s, ".") # {} THEN SetMax(DelimitersIn(s, ".")) + 1
    ELSE IF DelimitersIn(s, "\n") # {} THEN SetMax(DelimitersIn(s, "\n")) + 1
    ELSE IF DelimitersIn(s, " ") # {} THEN SetMax(DelimitersIn(s, " ")) + 1
    ELSE s + chunk_size

\* an iteration over a window that ends before the end of the text
InnerWindow == pc = "loop" /\ tick' # tick /\ loop.start + chunk_size < Len(text)

\* C22: a window [start, start+chunk_size) that ends before the end of the
\* text is cut just after the last '.' in its second half if there is one,
\* otherwise after the last newline there, otherwise after the last space
\* there, otherwise at start+chunk_size; the chunk's end_char is the
\* delimiter's index + 1 and the next window starts chunk_overlap before
\* the cut.  The worked example (chunk_size 40, chunk_overlap 5) gives
\* exactly two chunks, the first being its first sentence.
C22_CutsAtBoundary ==
    [][/\ InnerWindow =>
             /\ loop'.start = ExpectedCut(loop.start) - chunk_overlap
             /\ Len(loop'.chunks) > Len(loop.chunks) =>
                    /\ loop'.chunks[Len(loop'.chunks)].start_char = loop.start
                    /\ loop'.chunks[Len(loop'.chunks)].end_char
                           = ExpectedCut(loop.start)
       /\ ExampleChunks.returned
       /\ Len(ExampleChunks.chunks) = 2
       /\ ExampleChunks.chunks[1].content = SubSeq(ExampleText, 1, 31)
       /\ ExampleChunks.chunks[1].end_char = 31]_vars

\* a returned run with a chunk cut after a period although a newline or a
\* space comes later in the same window
C22_Witness ==
    /\ Returned /\ chunk_size = MaxSize + 1
    /\ \E k \in 1..Len(loop.chunks) :
          LET s == loop.chunks[k].start_char
              e == loop.chunks[k].end_char
          IN  /\ s + chunk_size < Len(text)
              /\ e < s + chunk_size
              /\ text[e] = "."
              /\ IsSpace(text[e + 1])

\* C23: an ingestion request with chunk_overlap >= chunk_size is rejected
\* before chunking: chunk_text is never entered with such parameters.
C23_InvalidParamsRejected ==
    chunk_overlap >= chunk_size => pc \in {"request", "rejected"}

\* what the route does reject: parameters outside the form's ranges
C23_OutOfRangeRejected ==
    ~FormAccepts(chunk_size, chunk_overlap) => pc \in {"request", "rejected"}

(***************************************************************************)
(* Further claims about the chunk store.                                   *)
(***************************************************************************)

CanStep(s) == ENABLED (Dispatch(s) \/ Resume(s) \/ CallReturns(s))

\* C25: every call from a request into an external collaborator is a
\* suspension point: while one request waits inside such a call, a sibling
\* request that has not been answered can still take a step.
C25_CollaboratorCallsYield ==
    \A r, s \in RequestIds :
        (r # s /\ StepOf(r) \in Collaborators /\ ~Finished(s)) => CanStep(s)

\* what does yield: a request that waits in `await file.read()` does not
\* hold the thread
C25_UploadReadYields ==
    \A r \in RequestIds : StepOf(r) = "read" => thread # r

\* the collections other than the one an operation was called on
Others(c) == CollectionNames \ {c}

\* C26: collections are independent partitions: add_document and
\* delete_document on a collection leave the chunks and the document count
\* of every other collection unchanged, also when both hold chunks with the
\* same filename, and every chunk query_documents returns for a collection
\* is a chunk stored in that collection.
C26_CollectionsIndependent ==
    [][/\ ret'.op \in {"add", "delete"} =>
             \A b \in Others(ret'.collection_name) :
                /\ (b \in DOMAIN index') = (b \in DOMAIN index)
                /\ b \in DOMAIN index =>
                      /\ index'[b] = index[b]
                      /\ Cardinality(index'[b]) = Cardinality(index[b])
       /\ (ret'.op = "query" /\ ~ret'.raised) =>
             \A i \in 1..Len(ret'.value) :
                \E r \in Records(ret'.collection_name) :
                   /\ r.id = ret'.value[i].chunk_id
                   /\ r.document = ret'.value[i].content
                   /\ r.metadata = ret'.value[i].metadata]_vars

\* chunks of one filename were deleted from a collection while another
\* collection holds a chunk with that filename
C26_Witness ==
    /\ ret.op = "delete" /\ ~ret.raised /\ ret.value >= 1
    /\ ret.document_id = {}
    /\ Matching(ret.collection_name, ret.filename) = {}
    /\ \E b \in Others(ret.collection_name) : Matching(b, ret.filename) # {}

\* the count of a collection moves by what add_document and
\* delete_document return, and get_collection_info reports it
CountsFollow(c) ==
    /\ (ret'.op = "add" /\ ~ret'.raised /\ ret'.collection_name = c)
       => Cardinality(Records(c)') = Cardinality(Records(c)) + ret'.count
    /\ (ret'.op = "delete" /\ ~ret'.raised /\ ret'.collection_name = c)
       => Cardinality(Records(c)') = Cardinality(Records(c)) - ret'.value
    /\ (ret'.op = "info" /\ ~ret'.raised /\ ret'.collection_name = c)
       => /\ ret'.value.document_count = Cardinality(Records(c))
          /\ ret'.value.exists = Exists(c)

\* C27: the counts returned by the store account for its contents: each
\* add_document call raises the collection's count by the count it returns,
\* each delete_document call lowers it by the count it returns, and
\* get_collection_info reports that count (0 with exists = false for a
\* collection never created), so that document_count is the sum of the
\* counts added minus the sum of the counts deleted.
C27_CountsAccount == [][\A c \in CollectionNames : CountsFollow(c)]_vars

\* the same for the calls made while the index can be reached that delete
\* by filename or by a stored id and add chunks under ids not yet stored
C27_CountsAccountForStoredIds ==
    [][\A c \in CollectionNames :
          (/\ backendUp
           /\ ret'.op = "delete" =>
                 \A i \in ret'.document_id : \E r \in Records(c) : r.id = i
           /\ ret'.op = "add" =>
                 /\ Cardinality(ret'.ids) = ret'.count
                 /\ \A r \in Records(c) : r.id \notin ret'.ids)
          => CountsFollow(c)]_vars

(***************************************************************************)
(* Further claims about chunk_text.                                        *)
(***************************************************************************)

\* C28: each chunk's content equals the slice of the source text between
\* its start_char and end_char with leading and trailing whitespace
\* removed, and never has more than chunk_size characters.
C28_ContentIsTrimmedSlice ==
    \A k \in 1..Len(loop.chunks) :
        /\ loop.chunks[k].content
              = Strip(Slice(text, loop.chunks[k].start_char, loop.chunks[k].end_char))
        /\ Len(loop.chunks[k].content) <= chunk_size

\* a returned chunk that lost whitespace at both ends of its slice
C28_Witness ==
    /\ Returned
    /\ \E k \in 1..Len(loop.chunks) :
          LET slice == Slice(text, loop.chunks[k].start_char, loop.chunks[k].end_char)
          IN  /\ Len(slice) >= 3
              /\ IsSpace(slice[1]) /\ IsSpace(slice[Len(slice)])
              /\ Len(loop.chunks[k].content) = Len(slice) - 2

(***************************************************************************)
(* Further claims about the answer resolver.                               *)
(***************************************************************************)

\* the call that has returned had the arguments of the one before it and
\* ran in the other implementation (the credential is the process's)
SameCallOtherImplementation ==
    /\ rpc = "returned"
    /\ previous.call.impl \in Implementations \ {call.impl}
    /\ previous.call.query = call.query
    /\ previous.call.chunks = call.chunks
    /\ previous.call.fallback_to_gpt = call.fallback_to_gpt

\* the collaborator answered the two calls alike, invocation by invocation
SameResponses ==
    \A i \in 1..Len(invocations) :
        i <= Len(previous.invocations)
        => invocations[i].reply = previous.invocations[i].reply

\* C29: generate_answer_with_openai and generate_answer_with_rag are
\* observationally equivalent: for the same query, retrieved chunks,
\* fallback flag, credential state and collaborator responses they make the
\* same sequence of collaborator invocations and return the same answer
\* text and the same source kind.
C29_ResolversEquivalent ==
    (SameCallOtherImplementation /\ SameResponses)
    => /\ invocations = previous.invocations
       /\ result.answer = previous.result.answer
       /\ result.source = previous.result.source

\* the same with a credential configured
C29_ConfiguredResolversEquivalent ==
    Configured(OPENAI_API_KEY) => C29_ResolversEquivalent

\* the two implementations were run on the same input with a fallback
\* after the sentinel, and the collaborator answered them alike
C29_EquivalentFallbackSeen ==
    /\ SameCallOtherImplementation /\ SameResponses
    /\ Len(invocations) = 2

(***************************************************************************)
(* Claims about the routes of the chunk store.                             *)
(***************************************************************************)

\* C30: GET /vectordb/collections succeeds in every store state in which
\* the index can be reached: it returns success = true with one entry per
\* existing collection and total_collections equal to their number, also
\* after add_document has created collections.
C30_ListingSucceeds ==
    [][(ret'.op = "GET /collections" /\ backendUp)
       => /\ ret'.status = 200
          /\ ret'.success
          /\ {e.value : e \in ret'.collections} = DOMAIN index
          /\ ret'.total_collections = Cardinality(DOMAIN index)]_vars

\* the same while no collection exists
C30_EmptyListingSucceeds ==
    [][(ret'.op = "GET /collections" /\ backendUp /\ DOMAIN index = {})
       => /\ ret'.status = 200
          /\ ret'.success
          /\ ret'.collections = {}
          /\ ret'.total_collections = 0]_vars

====
